---- MODULE Spec2Model ----
(***************************************************************************)
(* A model of the Smart Inventory Dashboard (src/app.py): the ingestion    *)
(* function smart_transform, the cached loader load_data, the script body  *)
(* main that owns the session state, and the query pipeline                *)
(* dashboard_page.                                                         *)
(*                                                                         *)
(* Text values (headers, cells, items) are strings; the string functions   *)
(* the code applies (str.lower, str.strip, the "item" substring test,     *)
(* pd.to_datetime, pd.to_numeric) are given by their value on every token  *)
(* of the alphabets below.  A missing cell (what read_csv yields for an    *)
(* empty field) is the token NaN.  Numbers are floats in units of one half *)
(* (h = 19 is 9.5) together with +infinity and the float NaN.  A timestamp *)
(* is a number of hours (day * 24 + hour); NaT is the missing timestamp.   *)
(***************************************************************************)
EXTENDS Integers, Sequences, FiniteSets, TLC

VARIABLES
    headers,     \* raw table: df.columns after astype(str)
    rows,        \* raw table: the data rows, each a sequence of cells
    out,         \* what smart_transform returned or raised for that table
    clean_data,  \* st.session_state.clean_data
    filename,    \* st.session_state.filename
    cache,       \* st.cache_data entries of load_data, one per url
    attempt,     \* how the last run of main ended its load_data call
    lastGood,    \* history: result and label of the last successful load
    page         \* what the last run of dashboard_page computed and showed

vars == <<headers, rows, out, clean_data, filename, cache, attempt, lastGood, page>>

\* ------------------------------------------------------------- bounds
MaxCols == 4
MaxRows == 2
MaxRecs == 2

\* ------------------------------------------------------------- values
NaT == -1

Fin(h) == [k |-> "fin", h |-> h]
Inf == [k |-> "inf", h |-> 0]
NaNf == [k |-> "nan", h |-> 0]

\* str.lower() on a header
Lower(c) ==
    CASE c = "DATE" -> "date"
      [] c = "STOCK" -> "stock"
      [] c = "Item Name" -> "item name"
      [] c = "Opening Stock" -> "opening stock"
      [] c = "Foo" -> "foo"
      [] OTHER -> c

\* "item" in c.lower()
ContainsItem(c) == Lower(c) \in {"item", "item name"}

\* "opening" in c.lower(): the gating column of the specification
ContainsOpening(c) == Lower(c) \in {"opening stock"}

\* pd.to_datetime on one string; NaT where the parse fails
ToDatetime(x) ==
    CASE x = "2026-01-01" -> 24
      [] x = "2026-01-02" -> 48
      [] x = "2026-01-01 09:00" -> 33
      [] x = "2026-01-01 18:00" -> 42
      [] x = "2026-01-02 09:00" -> 57
      [] OTHER -> NaT

\* is_date_column: pd.to_datetime(col) does not raise
is_date_column(col) == ToDatetime(col) # NaT

\* pd.to_numeric(errors="coerce") on one cell
ToNumeric(x) ==
    CASE x = "5" -> Fin(10)
      [] x = "9.5" -> Fin(19)
      [] x = "10" -> Fin(20)
      [] x = "-0.5" -> Fin(-1)
      [] x = "inf" -> Inf
      [] OTHER -> NaNf

\* str.strip() on one string; a missing value stays missing
Strip(s) ==
    CASE s = " Tea " -> "Tea"
      [] s = " Coffee " -> "Coffee"
      [] s = "  " -> ""
      [] OTHER -> s

\* a missing cell or item
NaN == "NaN"

\* astype(str) on one cell.  Up to pandas 2 a missing value becomes the
\* text "nan"; from pandas 3 it stays missing (keepNA).
AsTypeStr(x, keepNA) == IF x = NaN /\ ~keepNA THEN "nan" ELSE x

\* df[col].astype(str).str.strip() on one cell
ItemText(x, keepNA) == Strip(AsTypeStr(x, keepNA))

\* dropna(subset=["Date", "Item", "Stock"]) keeps a row
NotNA(r) == r.Date # NaT /\ r.Item # NaN /\ r.Stock.k # "nan"

DropNA(s) == SelectSeq(s, NotNA)

Min(S) == CHOOSE x \in S : \A y \in S : x <= y

\* the members of a set of integers in ascending order
RECURSIVE Ascending(_)
Ascending(S) == IF S = {} THEN <<>> ELSE <<Min(S)>> \o Ascending(S \ {Min(S)})

\* ------------------------------------------------------ smart_transform
\* A result names the case that ran.  A record carries, besides its three
\* columns, the place of the raw table its stock was read from (row, col):
\* what the frame's index label stands for.
Raised(case, e) == [err |-> e, case |-> case, data |-> <<>>]
Returned(case, d) == [err |-> "none", case |-> case, data |-> d]

required == {"date", "item", "stock"}

IsLong(hs) == required \subseteq {Lower(hs[i]) : i \in 1..Len(hs)}

\* CASE 1: the columns are renamed by lower-cased name; a name borne by two
\* columns makes df[name] a frame, on which to_datetime, to_numeric and
\* .str raise.  The rows keep their order.
LongTransform(hs, rs, keepNA) ==
    LET col(n) == {i \in 1..Len(hs) : Lower(hs[i]) = n}
        one(n) == CHOOSE i \in col(n) : TRUE
        rec(i) == [row |-> i, col |-> one("stock"),
                   Date |-> ToDatetime(rs[i][one("date")]),
                   Item |-> ItemText(rs[i][one("item")], keepNA),
                   Stock |-> ToNumeric(rs[i][one("stock")])]
    IN  IF \E n \in required : Cardinality(col(n)) > 1
        THEN Raised("LONG", "DuplicateColumn")
        ELSE Returned("LONG", DropNA([i \in 1..Len(rs) |-> rec(i)]))

\* a melt that emits row by row
MeltRowMajor(hs, rs, date_cols, item_col, keepNA) ==
    LET m == Len(date_cols)
        rec(k) == LET i == ((k - 1) \div m) + 1
                      j == ((k - 1) % m) + 1
                  IN  [row |-> i, col |-> date_cols[j],
                       Date |-> ToDatetime(hs[date_cols[j]]),
                       Item |-> ItemText(rs[i][item_col], keepNA),
                       Stock |-> ToNumeric(rs[i][date_cols[j]])]
    IN  [k \in 1..(Len(rs) * m) |-> rec(k)]

\* df.melt: one block of rows per date column, in date_cols order, each
\* block in row order
Melt(hs, rs, date_cols, item_col, keepNA) ==
    LET n == Len(rs)
        rec(k) == LET j == ((k - 1) \div n) + 1
                      i == ((k - 1) % n) + 1
                  IN  [row |-> i, col |-> date_cols[j],
                       Date |-> ToDatetime(hs[date_cols[j]]),
                       Item |-> ItemText(rs[i][item_col], keepNA),
                       Stock |-> ToNumeric(rs[i][date_cols[j]])]
    IN  [k \in 1..(n * Len(date_cols)) |-> rec(k)]

\* the two schema checks in the other order
WideTransformItemFirst(hs, rs, keepNA) ==
    LET date_cols == Ascending({i \in 1..Len(hs) : is_date_column(hs[i])})
        item_cols == {i \in 1..Len(hs) : ContainsItem(hs[i])}
    IN  IF item_cols = {} THEN Raised("WIDE", "NoItemColumn")
        ELSE IF date_cols = <<>> THEN Raised("WIDE", "NoDateColumns")
        ELSE Returned("WIDE", DropNA(Melt(hs, rs, date_cols, Min(item_cols), keepNA)))

\* CASE 2
WideTransform(hs, rs, keepNA) ==
    LET date_cols == Ascending({i \in 1..Len(hs) : is_date_column(hs[i])})
        item_cols == {i \in 1..Len(hs) : ContainsItem(hs[i])}
    IN  IF date_cols = <<>> THEN Raised("WIDE", "NoDateColumns")
        ELSE IF item_cols = {} THEN Raised("WIDE", "NoItemColumn")
        ELSE Returned("WIDE", DropNA(Melt(hs, rs, date_cols, Min(item_cols), keepNA)))

smart_transform(hs, rs, keepNA) ==
    IF IsLong(hs) THEN LongTransform(hs, rs, keepNA)
    ELSE WideTransform(hs, rs, keepNA)

SchemaErrors == {"NoDateColumns", "NoItemColumn"}

\* ------------------------------------------------------------- inputs
Headers == {"date", "DATE", "item", "Item Name", "STOCK", "Opening Stock",
            "2026-01-01", "2026-01-02", "Foo"}

\* the header lists read_csv can deliver: no name twice
HeaderLists ==
    UNION {{hs \in [1..n -> Headers] : \A i, j \in 1..n : hs[i] = hs[j] => i = j}
           : n \in 1..MaxCols}

Layouts == {<<"date", "item", "STOCK">>,
            <<"STOCK", "DATE", "item">>,
            <<"item", "2026-01-01", "2026-01-02">>,
            <<"2026-01-02", "Item Name", "2026-01-01">>,
            <<"Item Name", "Opening Stock", "2026-01-01">>,
            <<"Item Name", "item", "2026-01-02">>}

CellsFor(c) ==
    CASE Lower(c) = "date" -> {"2026-01-01 09:00", NaN, "soon"}
      [] ContainsItem(c) -> {"Tea", " Coffee ", NaN, "  "}
      [] ContainsOpening(c) -> {"5", NaN}
      [] Lower(c) = "stock" \/ is_date_column(c) -> {"9.5", NaN, "inf"}
      [] OTHER -> {NaN}

Cells == {"2026-01-01 09:00", "Tea", " Coffee ", "9.5", "5", "soon", "  ", "inf", NaN}

RowsFor(hs) == {r \in [1..Len(hs) -> Cells] : \A i \in 1..Len(hs) : r[i] \in CellsFor(hs[i])}

TablesFor(hs) == UNION {[1..n -> RowsFor(hs)] : n \in 0..MaxRows}

NoOut == [err |-> "pending", case |-> "none", data |-> <<>>]
NoPage == [status |-> "notrun"]
None == [isNone |-> TRUE, df |-> <<>>]
Some(d) == [isNone |-> FALSE, df |-> d]

\* the keys of CAFE_LINKS
Cafes == {"Nayakka", "BSC Andheri"}
EmptyCache == [c \in Cafes |-> None]

SessionIdle ==
    /\ clean_data = None
    /\ filename = "None"
    /\ cache = EmptyCache
    /\ attempt = "none"
    /\ lastGood = [data |-> None, label |-> "None"]
    /\ page = NoPage

\* ------------------------------------------- smart_transform on a table
Transform ==
    /\ out = NoOut
    /\ \E keepNA \in BOOLEAN : out' = smart_transform(headers, rows, keepNA)
    /\ UNCHANGED <<headers, rows, clean_data, filename, cache, attempt, lastGood, page>>

\* every header list, on a table without data rows
InitDetect ==
    /\ headers \in HeaderLists
    /\ rows = <<>>
    /\ out = NoOut
    /\ SessionIdle

SpecDetect == InitDetect /\ [][Transform]_vars

\* the layouts with data rows
InitTransform ==
    /\ headers \in Layouts
    /\ rows \in TablesFor(headers)
    /\ out = NoOut
    /\ SessionIdle

SpecTransform == InitTransform /\ [][Transform]_vars

\* -------------------------------------------------------- dashboard_page
MinThreshold == 0
DefaultThreshold == 10
Thresholds == {MinThreshold, DefaultThreshold, DefaultThreshold + 1}

\* .dt.date of a timestamp
DtDate(ts) == ts \div 24

\* <= in place of <
LessOrEqual(stock, threshold) == stock.k = "fin" /\ stock.h <= 2 * threshold

\* df["Stock"] < threshold on one value: the float comparison
Less(stock, threshold) == stock.k = "fin" /\ stock.h < 2 * threshold

\* float <= on two stocks, the order sort_values sorts by
Leq(a, b) == b.k = "inf" \/ (a.k = "fin" /\ b.k = "fin" /\ a.h <= b.h)

\* a guard that tests for None alone
NoDataNoneOnly(cd) == cd.isNone

\* df.empty guard at the top of the page
NoData(cd) == cd.isNone \/ cd.df = <<>>

\* df["Item"] = df["Item"].astype(str).str.strip(), in place on the session's frame
NormalizeItems(df, keepNA) ==
    [i \in 1..Len(df) |-> [df[i] EXCEPT !.Item = ItemText(df[i].Item, keepNA)]]

\* sorted(df["Date"].dt.date.unique())
AvailableDates(df) == Ascending({DtDate(df[i].Date) : i \in 1..Len(df)})

\* the selectbox default: index = len(available_dates) - 1
DefaultDate(df) == AvailableDates(df)[Len(AvailableDates(df))]

\* df[df["Date"].dt.date == selected_date]
FilterByDate(df, selected_date) ==
    SelectSeq(df, LAMBDA r : DtDate(r.Date) = selected_date)

\* the options of the multiselect: df["Item"].dropna().unique()
ItemOptions(df) == {df[i].Item : i \in 1..Len(df)} \ {NaN}

\* isin without the test for an empty selection
FilterByItemsAlways(df, selected_items) ==
    SelectSeq(df, LAMBDA r : r.Item \in selected_items)

\* if selected_items: df = df[df["Item"].isin(selected_items)]
FilterByItems(df, selected_items) ==
    IF selected_items # {}
    THEN SelectSeq(df, LAMBDA r : r.Item \in selected_items)
    ELSE df

\* if checkbox: df = df[df["Stock"] < threshold]
FilterLowStock(df, threshold, low_only) ==
    IF low_only THEN SelectSeq(df, LAMBDA r : Less(r.Stock, threshold)) ELSE df

Reorder(df, f) == [i \in 1..Len(df) |-> df[f[i]]]

Bijections(n) == {f \in [1..n -> 1..n] : \A i, j \in 1..n : f[i] = f[j] => i = j}

\* df.sort_values("Stock"): kind defaults to "quicksort", which orders the
\* stocks ascending and leaves the order of equal stocks unspecified
SortValues(df) ==
    {Reorder(df, f) : f \in {g \in Bijections(Len(df)) :
        \A i \in 1..(Len(df) - 1) : Leq(df[g[i]].Stock, df[g[i + 1]].Stock)}}

\* df["Stock"].sum()
RECURSIVE SumStock(_)
SumStock(df) ==
    IF df = <<>> THEN Fin(0)
    ELSE LET rest == SumStock(Tail(df))
         IN  IF Head(df).Stock.k = "inf" \/ rest.k = "inf" THEN Inf
             ELSE Fin(Head(df).Stock.h + rest.h)

\* int(x) on a finite float: the fraction is cut off, towards zero
IntOf(h) == IF h >= 0 THEN h \div 2 ELSE -((-h) \div 2)

\* (df["Stock"] < threshold).sum()
LowCount(df, threshold) == Cardinality({i \in 1..Len(df) : Less(df[i].Stock, threshold)})

\* df["Item"].nunique()
NUnique(df) == Cardinality({df[i].Item : i \in 1..Len(df)} \ {NaN})

NoDataPage ==
    [status |-> "nodata", selected_date |-> NaT, default_date |-> NaT,
     selected_items |-> {}, threshold |-> DefaultThreshold, low_only |-> FALSE,
     by_date |-> <<>>, by_item |-> <<>>, by_low |-> <<>>, view |-> <<>>,
     metrics |-> <<>>, exported |-> <<>>]

\* the metrics taken from the view before the low-stock filter
RenderBeforeLowFilter(df, d, sel, t, low, by_date, by_item, by_low, view) ==
    LET total == SumStock(by_item)
        raised == total.k # "fin"
    IN  [status |-> IF raised THEN "error" ELSE "shown",
         selected_date |-> d, default_date |-> DefaultDate(df),
         selected_items |-> sel, threshold |-> t, low_only |-> low,
         by_date |-> by_date, by_item |-> by_item, by_low |-> by_low, view |-> view,
         metrics |-> IF raised THEN <<NUnique(by_item)>>
                     ELSE <<NUnique(by_item), IntOf(total.h), LowCount(by_item, t)>>,
         exported |-> IF raised THEN <<>> ELSE view]

\* the three metrics, the table and the download of the sorted view; int()
\* of an infinite total raises once the first metric is drawn, before the
\* other two, the table and the download
Render(df, d, sel, t, low, by_date, by_item, by_low, view) ==
    LET total == SumStock(view)
        raised == total.k # "fin"
    IN  [status |-> IF raised THEN "error" ELSE "shown",
         selected_date |-> d, default_date |-> DefaultDate(df),
         selected_items |-> sel, threshold |-> t, low_only |-> low,
         by_date |-> by_date, by_item |-> by_item, by_low |-> by_low, view |-> view,
         metrics |-> IF raised THEN <<NUnique(view)>>
                     ELSE <<NUnique(view), IntOf(total.h), LowCount(view, t)>>,
         exported |-> IF raised THEN <<>> ELSE view]

\* every page the code below the guard can produce: one for each state of
\* the four widgets and each outcome of the sort; with no date to offer, the
\* selectbox raises on its index of -1
PagesOf(df) ==
    IF df = <<>> THEN {[NoDataPage EXCEPT !.status = "error"]} ELSE
    UNION {
      LET by_date == FilterByDate(df, d) IN
      UNION {
        LET by_item == FilterByItems(by_date, sel) IN
        UNION {
          LET by_low == FilterLowStock(by_item, tl[1], tl[2]) IN
          {Render(df, d, sel, tl[1], tl[2], by_date, by_item, by_low, view)
             : view \in SortValues(by_low)}
          : tl \in Thresholds \X BOOLEAN}
        : sel \in SUBSET ItemOptions(by_date)}
      : d \in {AvailableDates(df)[i] : i \in 1..Len(AvailableDates(df))}}

dashboard_page(cd, keepNA) ==
    IF NoData(cd) THEN {NoDataPage} ELSE PagesOf(NormalizeItems(cd.df, keepNA))

\* what the page leaves in st.session_state.clean_data
AfterPage(cd, keepNA) ==
    IF NoData(cd) THEN cd ELSE Some(NormalizeItems(cd.df, keepNA))

\* one call of dashboard_page on the session's dataset
DashboardPage ==
    /\ page = NoPage
    /\ \E keepNA \in BOOLEAN :
          /\ page' \in dashboard_page(clean_data, keepNA)
          /\ clean_data' = AfterPage(clean_data, keepNA)
    /\ UNCHANGED <<headers, rows, out, filename, cache, attempt, lastGood>>

\* the datasets of the query runs: what a LONG table of up to MaxRecs rows,
\* none of them dropped, is transformed to
QueryRecords ==
    [Date : {33, 42, 57}, Item : {"Tea", "Coffee"}, Stock : {Fin(19), Fin(20), Inf}]

QueryDatasets(n) ==
    {[i \in 1..n |-> [row |-> i, col |-> 3, Date |-> s[i].Date,
                      Item |-> s[i].Item, Stock |-> s[i].Stock]]
     : s \in [1..n -> QueryRecords]}

InitQuery ==
    /\ headers = <<>>
    /\ rows = <<>>
    /\ out = NoOut
    /\ \E n \in 0..MaxRecs : clean_data \in {None} \cup {Some(d) : d \in QueryDatasets(n)}
    /\ filename = "None"
    /\ cache = EmptyCache
    /\ attempt = "none"
    /\ lastGood = [data |-> None, label |-> "None"]
    /\ page = NoPage

SpecQuery == InitQuery /\ [][DashboardPage]_vars

\* ------------------------------------------------------ load_data, main
\* what the two sheets may hold when they are fetched
Sheets ==
    {[headers |-> <<"date", "item", "STOCK">>,
      rows |-> <<<<"2026-01-01 09:00", " Tea ", "9.5">>,
                 <<"2026-01-01 18:00", "Coffee", "10">>,
                 <<"2026-01-02 09:00", "Tea", "10">>>>],
     [headers |-> <<"Item Name", "2026-01-01", "2026-01-02">>,
      rows |-> <<<<"Tea", "5", "10">>, <<" Coffee ", "-0.5", NaN>>, <<NaN, "inf", NaN>>>>],
     [headers |-> <<"date", "item", "STOCK">>,
      rows |-> <<<<"soon", "Tea", "abc">>>>],
     [headers |-> <<"Foo", "item">>, rows |-> <<<<NaN, "Tea">>>>],
     [headers |-> <<"Foo", "2026-01-01">>, rows |-> <<<<NaN, "5">>>>],
     [headers |-> <<"date", "DATE", "item", "STOCK">>,
      rows |-> <<<<"2026-01-01 09:00", NaN, "Tea", "5">>>>]}

\* load_data under st.cache_data(ttl=600): a live entry is returned as it
\* is; otherwise the sheet is fetched (pd.read_csv may raise) and
\* transformed.  Only a returned value is cached.
load_data(entries, cafe, keepNA, expired) ==
    IF ~entries[cafe].isNone /\ ~expired
    THEN {Returned("cached", entries[cafe].df)}
    ELSE {smart_transform(sh.headers, sh.rows, keepNA) : sh \in Sheets}
         \cup {Raised("none", "FetchFailed")}

CacheAfter(entries, cafe, expired, res) ==
    IF res.err = "none" THEN [entries EXCEPT ![cafe] = Some(res.data)]
    ELSE IF expired THEN [entries EXCEPT ![cafe] = None]
    ELSE entries

\* the label is stored before the data is loaded
MainStoresLabelFirst(res, cafe, cd, fn) ==
    IF res.err = "none" THEN [clean_data |-> Some(res.data), filename |-> cafe]
    ELSE [clean_data |-> cd, filename |-> cafe]

\* the try block of main up to the call of dashboard_page: both assignments
\* follow the load, and an exception skips them
MainStores(res, cafe, cd, fn) ==
    IF res.err = "none" THEN [clean_data |-> Some(res.data), filename |-> cafe]
    ELSE [clean_data |-> cd, filename |-> fn]

Outcome(res) ==
    IF res.err = "none" THEN "ok"
    ELSE IF res.err \in SchemaErrors THEN "schema_error" ELSE "load_error"

\* one run of the script: main, with the page it draws
Main ==
    \E cafe \in Cafes, keepNA \in BOOLEAN, expired \in BOOLEAN :
      \E res \in load_data(cache, cafe, keepNA, expired) :
        LET st == MainStores(res, cafe, clean_data, filename) IN
        /\ cache' = CacheAfter(cache, cafe, expired, res)
        /\ attempt' = Outcome(res)
        /\ filename' = st.filename
        /\ IF res.err = "none"
           THEN /\ page' \in dashboard_page(st.clean_data, keepNA)
                /\ clean_data' = AfterPage(st.clean_data, keepNA)
                /\ lastGood' = [data |-> Some(res.data), label |-> cafe]
           ELSE /\ page' = NoPage
                /\ clean_data' = st.clean_data
                /\ lastGood' = lastGood
        /\ UNCHANGED <<headers, rows, out>>

\* the session as lines 24-26 leave it on the first run
Init ==
    /\ headers = <<>>
    /\ rows = <<>>
    /\ out = NoOut
    /\ SessionIdle

Next == Main

Spec == Init /\ [][Next]_vars

\* ------------------------------------------------ claims: ingestion
Done == out # NoOut
Ok == out.err = "none"
Data == out.data
Positions == 1..Len(out.data)

\* the column the item of every record is read from
ItemColumn ==
    IF IsLong(headers) THEN CHOOSE i \in 1..Len(headers) : Lower(headers[i]) = "item"
    ELSE Min({i \in 1..Len(headers) : ContainsItem(headers[i])})

HasGate == \E i \in 1..Len(headers) : ContainsOpening(headers[i])
GateColumn == Min({i \in 1..Len(headers) : ContainsOpening(headers[i])})

BlankItem(x) == x = NaN \/ Strip(x) = ""

\* C1: every record of a returned dataset has a valid date, a finite stock
\* and an item that is non-empty after trimming, and a row whose item cell
\* is missing or whitespace-only produces no record.
C1_RecordsValid ==
    (Done /\ Ok) =>
        /\ \A p \in Positions :
              /\ Data[p].Date # NaT
              /\ Data[p].Stock.k = "fin"
              /\ Data[p].Item # NaN
              /\ Strip(Data[p].Item) # ""
        /\ \A i \in 1..Len(rows) :
              BlankItem(rows[i][ItemColumn]) => \A p \in Positions : Data[p].row # i

\* C2: in a WIDE table with a gating ("opening") column, a row whose gating
\* cell is missing contributes no record.
C2_GatedRowsExcluded ==
    (Done /\ Ok /\ out.case = "WIDE" /\ HasGate) =>
        \A i \in 1..Len(rows) :
            rows[i][GateColumn] = NaN => \A p \in Positions : Data[p].row # i

HasDateHeader == \E i \in 1..Len(headers) : ToDatetime(headers[i]) # NaT
HasItemHeader == \E i \in 1..Len(headers) : ContainsItem(headers[i])
HasAllRequired == \A n \in {"date", "item", "stock"} : \E i \in 1..Len(headers) : Lower(headers[i]) = n

\* C4: date, item and stock among the lower-cased headers: the LONG case runs
\* and no schema error is raised; otherwise no date header: the
\* no-date-columns error, whether or not an item header exists; otherwise no
\* item header: the no-item-column error; a raised error returns no dataset.
C4_DetectionOutcome ==
    Done =>
        /\ HasAllRequired => out.case = "LONG" /\ out.err \notin SchemaErrors
        /\ (~HasAllRequired /\ ~HasDateHeader) => out.err = "NoDateColumns"
        /\ (~HasAllRequired /\ HasDateHeader /\ ~HasItemHeader) => out.err = "NoItemColumn"
        /\ (~HasAllRequired /\ HasDateHeader /\ HasItemHeader) => out.err = "none" /\ out.case = "WIDE"
        /\ out.err # "none" => out.data = <<>>

\* headers with neither a date nor an item column, such as [Foo]
C4_Witness == Done /\ ~HasAllRequired /\ ~HasDateHeader /\ ~HasItemHeader /\ out.err = "NoDateColumns"

\* ------------------------------------------------ claims: session
\* C5: the stored dataset and label are those of the last successful load
\* (both unset before the first); a run whose load fails changes neither and
\* does not run the page.
C5_SessionKeepsLastGood ==
    /\ clean_data = lastGood.data
    /\ filename = lastGood.label
    /\ attempt \in {"schema_error", "load_error"} => page = NoPage

\* a schema error in a session that holds an earlier dataset
C5_Witness == attempt = "schema_error" /\ ~clean_data.isNone /\ filename \in Cafes

\* ------------------------------------------------ claims: query
Ran == page # NoPage /\ page.status \in {"shown", "error"}
Range(sq) == {sq[i] : i \in 1..Len(sq)}
StockHalves(r) == r.Stock.h

\* the records of the dataset that pass the three filters of the page
Passing ==
    {r \in Range(clean_data.df) :
        /\ DtDate(r.Date) = page.selected_date
        /\ page.selected_items = {} \/ r.Item \in page.selected_items
        /\ ~page.low_only \/ (r.Stock.k = "fin" /\ StockHalves(r) < 2 * page.threshold)}

RECURSIVE SumHalves(_)
SumHalves(S) == IF S = {} THEN 0
                ELSE LET r == CHOOSE x \in S : TRUE IN StockHalves(r) + SumHalves(S \ {r})

\* C6 as stated: the metrics are those of the view left by the date, item
\* and low-stock filters, which is the view shown and exported: total stock is
\* the sum of its stocks, total items the number of its distinct items, the
\* low-stock count the number of its records below the threshold.
C6_TotalIsSum ==
    (page # NoPage /\ page.status = "shown") =>
        /\ Range(page.view) = Passing
        /\ Len(page.view) = Cardinality(Passing)
        /\ page.exported = page.view
        /\ page.metrics[1] = Cardinality({r.Item : r \in Passing})
        /\ 2 * page.metrics[2] = SumHalves(Passing)
        /\ page.metrics[3] = Cardinality({r \in Passing : StockHalves(r) < 2 * page.threshold})

\* C6 amended: the same, with total stock the sum of the view's stocks cut to
\* a whole number towards zero; and the page raises at the total, with the
\* item count alone drawn, exactly when a stock of the view is infinite.
C6_TotalIsTruncatedSum ==
    page # NoPage =>
        /\ page.status = "shown" =>
              /\ Range(page.view) = Passing
              /\ Len(page.view) = Cardinality(Passing)
              /\ page.exported = page.view
              /\ page.metrics[1] = Cardinality({r.Item : r \in Passing})
              /\ page.metrics[2] = (IF SumHalves(Passing) >= 0 THEN SumHalves(Passing) \div 2
                                    ELSE -((-SumHalves(Passing)) \div 2))
              /\ page.metrics[3] = Cardinality({r \in Passing : StockHalves(r) < 2 * page.threshold})
        /\ page.status = "error" =>
              /\ \E r \in Passing : r.Stock.k = "inf"
              /\ page.metrics = <<Cardinality({r.Item : r \in Passing})>>
              /\ page.exported = <<>>
        /\ page.status = "shown" => \A r \in Passing : r.Stock.k = "fin"

\* a view smaller than the dataset whose stocks sum to a fraction
C6_Witness ==
    /\ page # NoPage /\ page.status = "shown" /\ page.low_only
    /\ page.view # <<>> /\ Len(page.view) < Len(page.by_item)
    /\ SumHalves(Passing) % 2 = 1

\* C7: with the low-stock filter on, the view keeps exactly the records of
\* the item stage whose stock is strictly below the threshold, in their
\* order; with the filter off it keeps them all.
C7_LowStockStrict ==
    Ran =>
        /\ page.by_low = SelectSeq(page.by_item, LAMBDA r : r \in Range(page.by_low))
        /\ \A r \in Range(page.by_item) :
              r \in Range(page.by_low) <=>
                  (~page.low_only \/ (r.Stock.k = "fin" /\ StockHalves(r) < 2 * page.threshold))

\* the filter is on, a record at the threshold is left out and one below is kept
C7_Witness ==
    /\ Ran /\ page.low_only /\ page.by_low # <<>>
    /\ \E r \in Range(page.by_item) : r.Stock = Fin(2 * page.threshold) /\ r \notin Range(page.by_low)

\* C8: an empty item selection leaves the view as it is; a non-empty one
\* keeps exactly the records whose item is selected, in their order.
C8_ItemFilter ==
    Ran =>
        /\ page.selected_items = {} => page.by_item = page.by_date
        /\ page.selected_items # {} =>
              /\ page.by_item = SelectSeq(page.by_date, LAMBDA r : r \in Range(page.by_item))
              /\ \A r \in Range(page.by_date) :
                    r \in Range(page.by_item) <=> r.Item \in page.selected_items

\* nothing selected, and a view of two records with different items
C8_Witness ==
    /\ Ran /\ page.selected_items = {} /\ Len(page.by_date) >= 2
    /\ \E a, b \in Range(page.by_item) : a.Item # b.Item

Position(sq, r) == CHOOSE i \in 1..Len(sq) : sq[i] = r

\* C9: the view shown is a permutation of the view before the sort, in
\* ascending stock, and records of equal stock keep their order.
C9_SortStable ==
    (page # NoPage /\ page.status = "shown") =>
        /\ Range(page.view) = Range(page.by_low) /\ Len(page.view) = Len(page.by_low)
        /\ \A p, q \in 1..Len(page.view) : p < q =>
              /\ Leq(page.view[p].Stock, page.view[q].Stock)
              /\ page.view[p].Stock = page.view[q].Stock =>
                    Position(page.by_low, page.view[p]) < Position(page.by_low, page.view[q])

Max(S) == CHOOSE x \in S : \A y \in S : y <= x

\* C10: an unset or empty dataset ends the page with the no-data result and
\* no default date is derived; otherwise the default date is the latest
\* calendar date of the dataset, the date of one of its records.
C10_NoDataGuard ==
    page # NoPage =>
        IF clean_data.isNone \/ clean_data.df = <<>>
        THEN page.status = "nodata" /\ page.default_date = NaT
        ELSE /\ page.status # "nodata"
             /\ page.default_date = Max({r.Date \div 24 : r \in Range(clean_data.df)})
             /\ \E r \in Range(clean_data.df) : r.Date \div 24 = page.default_date

\* a dataset that is set and holds no record
C10_Witness == page # NoPage /\ ~clean_data.isNone /\ clean_data.df = <<>> /\ page.status = "nodata"

====
